---------------------------- MODULE Spec2Model ----------------------------
(***************************************************************************)
(* Model of the VKinder bot (src/src/bot.py) and of the persistence       *)
(* queries it uses (src/src/db/queries.py).                                *)
(*                                                                         *)
(* State: the two per-user session dictionaries of VKinderBot, the users, *)
(* blacklist and favorites tables, and the text of the message received   *)
(* last.  Spec has one action per branch of handle_message; the outcome   *)
(* of every collaborator call (VK API, database session) is an input of   *)
(* the action.  QuerySpec calls the favorites queries directly and        *)
(* ScoreSpec calls calculate_match_score directly.  The record `last`     *)
(* holds what the handler or call that ran last did: the messages it      *)
(* passed to send_message, the exception that left it, which collaborator *)
(* calls failed, and for a search the list found and the blacklist read.  *)
(***************************************************************************)
EXTENDS Integers, Sequences, FiniteSets, TLC

VARIABLES current_candidates, current_index, users, blacklist, favorites,
          received, last, events

vars == <<current_candidates, current_index, users, blacklist, favorites,
          received, last, events>>

---------------------------------------------------------------------------
(* Bounds and sample identifiers *)

\* handle_next_candidate is not taken once the cursor has this value
MaxIndex == 3

\* the users who write to the bot
Senders == {1}

\* the users the queries are called for in QuerySpec
QueryUsers == {1, 2}

\* the profiles users.search can find
CandidateIds == {11, 12}

\* a message that names no candidate
NoCandidate == 0

NoDuplicates(l) == \A i, j \in 1..Len(l) : i # j => l[i] # l[j]

\* what find_potential_matches can return: the profiles found are distinct;
\* [] also when the API fails
SearchResults ==
    {l \in UNION {[1..n -> CandidateIds] : n \in 0..Cardinality(CandidateIds)} :
        NoDuplicates(l)}

---------------------------------------------------------------------------
(* Python dictionaries: a function whose DOMAIN is the key set *)

EmptyDict == [k \in {} |-> 0]

\* DictSet on one value shared by every key
DictSetShared(d, k, v) == [x \in (DOMAIN d) \cup {k} |-> v]

\* d[k] = v
DictSet(d, k, v) == [x \in (DOMAIN d) \cup {k} |-> IF x = k THEN v ELSE d[x]]

---------------------------------------------------------------------------
(* Message texts.  A text is the words it spells (in lower case, Russian  *)
(* words transliterated, the emoji of a button label left out), whether   *)
(* one of its letters is in upper case and whether white space stands     *)
(* before or after the words.                                              *)

Text(words, upper, padded) == [words |-> words, upper |-> upper, padded |-> padded]

\* before the first message
NoText == Text("", FALSE, FALSE)

\* str.lower(): letters become lower case, white space stays
lower(text) == [text EXCEPT !.upper = FALSE]

\* the lists and literals of handle_message, lines 535-553
StartCommands == {"privet", "nachat", "start"}
HelpCommands == {"pomosch", "help"}
FindCommands == {"nayti paru", "poisk"}
FavoritesCommands == {"izbrannoe", "favorites"}
AddFavoriteCommands == {"v izbrannoe"}
BlacklistCommands == {"chyorny spisok"}
LikeCommands == {"layk foto"}
NextCommands == {"sleduyuschiy", "dalshe"}
RemoveFavoriteCommands == {"udalit iz izbrannogo"}
BackCommands == {"nazad", "otmena"}

\* text in [...]: the text is one of the strings, letter for letter
text_in(text, commands) ==
    text.words \in commands /\ ~text.upper /\ ~text.padded

\* the branch of handle_message a normalized text takes
branch_of(text) ==
    IF text_in(text, StartCommands) THEN "start"
    ELSE IF text_in(text, HelpCommands) THEN "help"
    ELSE IF text_in(text, FindCommands) THEN "find"
    ELSE IF text_in(text, FavoritesCommands) THEN "favorites"
    ELSE IF text_in(text, AddFavoriteCommands) THEN "add_favorite"
    ELSE IF text_in(text, BlacklistCommands) THEN "blacklist"
    ELSE IF text_in(text, LikeCommands) THEN "like"
    ELSE IF text_in(text, NextCommands) THEN "next"
    ELSE IF text_in(text, RemoveFavoriteCommands) THEN "remove_favorite"
    ELSE IF text_in(text, BackCommands) THEN "start"
    ELSE "unknown"

\* the words users write: one of each branch and one of no branch
SampleWords ==
    {"nachat", "help", "poisk", "favorites", "v izbrannoe", "chyorny spisok",
     "layk foto", "dalshe", "udalit iz izbrannogo", "nazad", "kak dela"}

\* the words users also write with upper-case letters and with white space
\* around them
VariedWords == {"nachat", "dalshe", "kak dela"}

\* the texts users write
Texts ==
    {Text(w, FALSE, FALSE) : w \in SampleWords}
    \cup {Text(w, u, p) : w \in VariedWords, u \in BOOLEAN, p \in BOOLEAN}

---------------------------------------------------------------------------
(* Messages handed to send_message: the text (by kind), the candidate the *)
(* text names, the keyboard attached                                       *)

Message(kind, cand, keyboard) == [kind |-> kind, cand |-> cand, keyboard |-> keyboard]

\* likes.add(type='photo', owner_id=..., item_id=...)
LikeRequest(owner_id, item_id) == [owner_id |-> owner_id, item_id |-> item_id]

\* no call of likes.add
NoRequest == LikeRequest(0, 0)

Outcome(cmd, user, sent, raised, failed, search, read) ==
    [cmd |-> cmd, user |-> user, sent |-> sent, raised |-> raised,
     failed |-> failed, search |-> search, read |-> read, request |-> NoRequest]

---------------------------------------------------------------------------
(* Persistence queries.  The users table is the set of the user_id of its *)
(* rows.  The blacklist table is the set of its (user_id, blocked_id)     *)
(* pairs.  The favorites table is the sequence of its (user_id,           *)
(* budding_id) rows in the order of their id; dates are not modelled.     *)

\* favorites.user_id and blacklist.user_id are foreign keys to
\* users.user_id: a row is inserted only for a user who has a row
foreign_key_holds(known_users, user_id) == user_id \in known_users

\* queries.get_blacklist when the query succeeds: the blocked_id of every
\* row of the user (int() of an Integer column is the value itself)
get_blacklist(rows, user_id) == {r[2] : r \in {x \in rows : x[1] = user_id}}

\* queries.add_to_blacklist: a row is added, existing rows are not looked at
add_to_blacklist(rows, user_id, blocked_id) == rows \cup {<<user_id, blocked_id>>}

\* the position of no row
NoRow == 0

\* query(Favorites).filter(user_id == ..., budding_id == ...).first(): the
\* position of the first row of the pair, NoRow when there is none
first_favorite(rows, user_id, budding_id) ==
    LET found == {i \in 1..Len(rows) : rows[i] = <<user_id, budding_id>>}
    IN  IF found = {} THEN NoRow
        ELSE CHOOSE i \in found : \A j \in found : i <= j

\* add_favorite without the look-up of the existing row
add_favorite_without_lookup(rows, user_id, budding_id) ==
    [entry |-> Len(rows) + 1, rows |-> Append(rows, <<user_id, budding_id>>)]

\* queries.add_favorite: the existing row is returned, otherwise one is
\* added; [entry, rows] are the position of the row returned and the table
add_favorite(rows, user_id, budding_id) ==
    LET existing == first_favorite(rows, user_id, budding_id)
    IN  IF existing # NoRow
        THEN [entry |-> existing, rows |-> rows]
        ELSE [entry |-> Len(rows) + 1, rows |-> Append(rows, <<user_id, budding_id>>)]

\* remove_favorite that reports success also when there is no row
remove_favorite_always_true(rows, user_id, budding_id) ==
    LET fav == first_favorite(rows, user_id, budding_id)
    IN  IF fav = NoRow
        THEN [removed |-> TRUE, rows |-> rows]
        ELSE [removed |-> TRUE,
              rows |-> SubSeq(rows, 1, fav - 1) \o SubSeq(rows, fav + 1, Len(rows))]

\* queries.remove_favorite: [removed, rows] are the value returned and the
\* table
remove_favorite(rows, user_id, budding_id) ==
    LET fav == first_favorite(rows, user_id, budding_id)
    IN  IF fav = NoRow
        THEN [removed |-> FALSE, rows |-> rows]
        ELSE [removed |-> TRUE,
              rows |-> SubSeq(rows, 1, fav - 1) \o SubSeq(rows, fav + 1, Len(rows))]

---------------------------------------------------------------------------
(* handle_find_pair, line 165: [c for c in candidates if c.id not in blacklist] *)

not_in_blacklist(id, blocked) == id \notin blocked

\* filter_candidates with the condition of the comprehension left out
filter_candidates_keeps_all(candidates, blocked) == candidates

filter_candidates(candidates, blocked) ==
    SelectSeq(candidates, LAMBDA c : not_in_blacklist(c, blocked))

---------------------------------------------------------------------------
(* Profiles and the match score.  An optional value (None or a value) is  *)
(* the sequence of no or one element.  A city is a Text.  The score and   *)
(* its weights are in percent: 0.4 is 40, and the result 0.77 is 77.      *)

None == <<>>

Some(value) == <<value>>

Profile(age, city) == [age |-> age, city |-> city]

Min(a, b) == IF a <= b THEN a ELSE b

Abs(a) == IF a >= 0 THEN a ELSE -a

\* weights = {'age': 0.4, 'city': 0.3, 'groups': 0.3}
AgeWeight == 40
CityWeight == 30
GroupsWeight == 30

\* `if x.age`: an age counts when it is there and is not 0
has_age(age) == age # None /\ age[1] # 0

\* `if x.city`: a city counts when it is there and is not the empty string
has_city(city) == city # None /\ city[1].words # ""

\* age_term without the min(..., 10)
age_term_unclamped(user_age, candidate_age) ==
    IF has_age(user_age) /\ has_age(candidate_age)
    THEN (AgeWeight * (10 - Abs(user_age[1] - candidate_age[1]))) \div 10
    ELSE 0

\* age_term with 5 years in the place of 10
age_term_five_years(user_age, candidate_age) ==
    IF has_age(user_age) /\ has_age(candidate_age)
    THEN (AgeWeight * (5 - Min(Abs(user_age[1] - candidate_age[1]), 5))) \div 5
    ELSE 0

\* lines 321-323: weights['age'] * (1 - min(abs(difference), 10) / 10)
age_term(user_age, candidate_age) ==
    IF has_age(user_age) /\ has_age(candidate_age)
    THEN (AgeWeight * (10 - Min(Abs(user_age[1] - candidate_age[1]), 10))) \div 10
    ELSE 0

\* city_term without the lower() of the two cities
city_term_case_sensitive(user_city, candidate_city) ==
    IF has_city(user_city) /\ has_city(candidate_city)
       /\ user_city[1] = candidate_city[1]
    THEN CityWeight ELSE 0

\* lines 326-327: user.city.lower() == candidate.city.lower()
city_term(user_city, candidate_city) ==
    IF has_city(user_city) /\ has_city(candidate_city)
       /\ lower(user_city[1]) = lower(candidate_city[1])
    THEN CityWeight ELSE 0

\* line 330: weights['groups'] * min(common_groups / 10, 1.0)
groups_term(common_groups) == (GroupsWeight * Min(common_groups, 10)) \div 10

\* calculate_match_score once the session has read the two rows
calculate_match_score(user_row, candidate_row, common_groups) ==
    IF user_row = None \/ candidate_row = None
    THEN 0
    ELSE Min(age_term(user_row[1].age, candidate_row[1].age)
             + city_term(user_row[1].city, candidate_row[1].city)
             + groups_term(common_groups), 100)

\* the profile VK has of a user or candidate, and the row written from it
VKProfile(id) ==
    IF id = 1 THEN Profile(Some(30), Some(Text("moscow", TRUE, FALSE)))
    ELSE IF id = 11 THEN Profile(Some(32), Some(Text("moscow", TRUE, FALSE)))
    ELSE Profile(None, Some(Text("moscow", FALSE, FALSE)))

\* groups.get of the user and of the candidate: the number of common groups
CommonGroups(user_id, candidate_id) == IF candidate_id = 11 THEN 5 ELSE 12

\* queries.get_user_by_id: the row of the user, None when there is none
get_user_by_id(known_users, user_id) ==
    IF user_id \in known_users THEN Some(VKProfile(user_id)) ELSE None

---------------------------------------------------------------------------
(* show_current_candidate.  The result is the set of what the display can *)
(* do, one element per outcome of the collaborator calls made for the     *)
(* candidate at the cursor:                                                *)
(*   get_top_photos returns a non-empty list.  The list holds dicts, and  *)
(*     prepare_attachments reads photo.attachment_str of each:            *)
(*     AttributeError, caught at line 272.                                *)
(*   the database session of lines 231-248 fails: get_blacklist swallows  *)
(*     the error and returns [], the next statement of the same session   *)
(*     (add_budding) raises, caught at line 272.                          *)
(*   the session of calculate_match_score raises, caught at line 272.     *)
(*   no photo and every call returns: the card, with the number of common *)
(*     groups and the score; get_common_groups returns 0 when groups.get  *)
(*     fails.                                                              *)
(* get_top_photos swallows the errors of the API and returns [].  An      *)
(* element is the index dictionary afterwards, the messages sent and      *)
(* which collaborator call failed.                                         *)

\* the card of a candidate: the text names the candidate, the number of
\* common groups and the score in percent
Card(candidate, common_groups, score) ==
    [kind |-> "card", cand |-> candidate, keyboard |-> "candidate",
     groups |-> common_groups, score |-> score]

\* is_blacklisted with the check of line 234 left out
is_blacklisted_never(id, blocked) == FALSE

\* line 234: candidate.id in blacklist
is_blacklisted(id, blocked) == id \in blocked

\* is_exhausted with == in the place of >=
is_exhausted_at_end_only(index, candidates) == index = Len(candidates)

\* line 210: index >= len(candidates)
is_exhausted(index, candidates) == index >= Len(candidates)

RECURSIVE show_current_candidate(_, _, _, _, _)
show_current_candidate(user_id, candidates_of, index_of, known_users, rows) ==
    IF user_id \notin DOMAIN candidates_of \/ user_id \notin DOMAIN index_of
    THEN {[index |-> index_of, failed |-> {},
           sent |-> <<Message("start_over", NoCandidate, "main")>>]}
    ELSE
    LET index == index_of[user_id]
        candidates == candidates_of[user_id]
    IN  IF is_exhausted(index, candidates)
        THEN {[index |-> index_of, failed |-> {},
               sent |-> <<Message("no_more_candidates", NoCandidate, "main")>>]}
        ELSE IF index + 1 \notin DOMAIN candidates
        \* line 214: candidates[index] raises IndexError, caught at line 272
        THEN {[index |-> index_of, failed |-> {},
               sent |-> <<Message("load_error", NoCandidate, "main")>>]}
        ELSE
        LET candidate == candidates[index + 1]
            photos_error == [index |-> index_of, failed |-> {},
                             sent |-> <<Message("load_error", NoCandidate, "main")>>]
            database_error == [index |-> index_of, failed |-> {"display"},
                               sent |-> <<Message("load_error", NoCandidate, "main")>>]
            card(common_groups) ==
                [index |-> index_of, failed |-> {},
                 sent |-> <<Card(candidate, common_groups,
                                 calculate_match_score(
                                     get_user_by_id(known_users, user_id),
                                     Some(VKProfile(candidate)), common_groups))>>]
        IN  {photos_error, database_error}
            \cup (IF is_blacklisted(candidate, get_blacklist(rows, user_id))
                  THEN show_current_candidate(user_id, candidates_of,
                           [index_of EXCEPT ![user_id] = @ + 1], known_users, rows)
                  ELSE {card(CommonGroups(user_id, candidate)),
                        [card(0) EXCEPT !.failed = {"groups"}]})

---------------------------------------------------------------------------
(* The state after VKinderBot.__init__.  The blacklist and favorites      *)
(* tables hold no row yet.  The bot never writes the users table          *)
(* (queries.add_user has no caller in the bot): the sender's row is there *)
(* or not, whatever wrote it.  No message has been received.               *)

NoOutcome == Outcome("none", 0, <<>>, "none", {}, <<>>, {})

Init ==
    /\ current_candidates = EmptyDict
    /\ current_index = EmptyDict
    /\ users \in SUBSET Senders
    /\ blacklist = {}
    /\ favorites = <<>>
    /\ received = NoText
    /\ last = NoOutcome
    /\ events = <<>>

---------------------------------------------------------------------------
(* Command handlers *)

handle_start(user_id) ==
    /\ last' = Outcome("start", user_id, <<Message("welcome", NoCandidate, "main")>>,
                       "none", {}, <<>>, {})
    /\ UNCHANGED <<users, current_candidates, current_index, blacklist, favorites>>

\* handle_help calls handle_start
handle_help(user_id) ==
    /\ last' = Outcome("help", user_id, <<Message("welcome", NoCandidate, "main")>>,
                       "none", {}, <<>>, {})
    /\ UNCHANGED <<users, current_candidates, current_index, blacklist, favorites>>

\* start_cursor that leaves the index dictionary as it is
start_cursor_forgotten(index_of, user_id) == index_of

\* line 172: self.current_index[user_id] = 0
start_cursor(index_of, user_id) == DictSet(index_of, user_id, 0)

\* handle_find_pair.  dbOk: the session of get_blacklist works (otherwise
\* get_blacklist returns []); userOk: get_user_info returns a profile;
\* found: what find_potential_matches returns ([] also when the API fails).
\* Every call of the try block catches its own errors, so the except branch
\* of line 175 is not taken.
handle_find_pair(user_id) ==
    \E userOk \in BOOLEAN :
        IF ~userOk
        THEN /\ last' = Outcome("find", user_id,
                            <<Message("no_user_data", NoCandidate, "none")>>,
                            "none", {"user_info"}, <<>>, {})
             /\ UNCHANGED <<users, current_candidates, current_index, blacklist, favorites>>
        ELSE \E dbOk \in BOOLEAN, found \in SearchResults :
            LET blocked == IF dbOk THEN get_blacklist(blacklist, user_id) ELSE {}
                read_failed == IF dbOk THEN {} ELSE {"blacklist_read"}
                candidates == filter_candidates(found, blocked)
            IN  IF candidates = <<>>
                THEN /\ last' = Outcome("find", user_id,
                                    <<Message("no_candidates", NoCandidate, "none")>>,
                                    "none", read_failed, found, blocked)
                     /\ UNCHANGED <<users, current_candidates, current_index, blacklist, favorites>>
                ELSE LET stored == DictSet(current_candidates, user_id, candidates)
                     IN  \E shown \in show_current_candidate(user_id, stored,
                                 start_cursor(current_index, user_id), users, blacklist) :
                        /\ current_candidates' = stored
                        /\ current_index' = shown.index
                        /\ last' = Outcome("find", user_id, shown.sent, "none",
                                       read_failed \cup shown.failed, found, blocked)
                        /\ UNCHANGED <<users, blacklist, favorites>>

\* handle_next_candidate
handle_next_candidate(user_id) ==
    IF user_id \in DOMAIN current_index
    THEN /\ current_index[user_id] < MaxIndex
         /\ \E shown \in show_current_candidate(user_id, current_candidates,
                    [current_index EXCEPT ![user_id] = @ + 1], users, blacklist) :
                 /\ current_index' = shown.index
                 /\ last' = Outcome("next", user_id, shown.sent, "none",
                                    shown.failed, <<>>, {})
         /\ UNCHANGED <<users, current_candidates, blacklist, favorites>>
    ELSE /\ last' = Outcome("next", user_id, <<>>, "none", {}, <<>>, {})
         /\ UNCHANGED <<users, current_candidates, current_index, blacklist, favorites>>

\* handle_add_to_favorites.  Everything runs inside the try block: the
\* IndexError of line 380 and an error of the session (dbOk is FALSE, or the
\* insert violates the foreign key to users) are caught at line 402.
handle_add_to_favorites(user_id) ==
    \E dbOk \in BOOLEAN :
        IF user_id \notin DOMAIN current_candidates \/ user_id \notin DOMAIN current_index
        THEN /\ last' = Outcome("add_favorite", user_id,
                            <<Message("find_first", NoCandidate, "none")>>,
                            "none", {}, <<>>, {})
             /\ UNCHANGED <<users, current_candidates, current_index, blacklist, favorites>>
        ELSE IF current_index[user_id] >= Len(current_candidates[user_id])
        THEN /\ last' = Outcome("add_favorite", user_id,
                            <<Message("favorite_error", NoCandidate, "none")>>,
                            "none", {}, <<>>, {})
             /\ UNCHANGED <<users, current_candidates, current_index, blacklist, favorites>>
        ELSE LET candidate == current_candidates[user_id][current_index[user_id] + 1]
             IN  IF ~dbOk
                 THEN /\ last' = Outcome("add_favorite", user_id,
                                     <<Message("favorite_error", NoCandidate, "none")>>,
                                     "none", {"database"}, <<>>, {})
                      /\ UNCHANGED <<users, current_candidates, current_index, blacklist, favorites>>
                 ELSE IF first_favorite(favorites, user_id, candidate) # NoRow
                 THEN /\ last' = Outcome("add_favorite", user_id,
                                     <<Message("already_favorite", NoCandidate, "none")>>,
                                     "none", {}, <<>>, {})
                      /\ UNCHANGED <<users, current_candidates, current_index, blacklist, favorites>>
                 ELSE IF ~foreign_key_holds(users, user_id)
                 THEN /\ last' = Outcome("add_favorite", user_id,
                                     <<Message("favorite_error", NoCandidate, "none")>>,
                                     "none", {"foreign_key"}, <<>>, {})
                      /\ UNCHANGED <<users, current_candidates, current_index, blacklist, favorites>>
                 ELSE /\ favorites' = add_favorite(favorites, user_id, candidate).rows
                      /\ last' = Outcome("add_favorite", user_id,
                                     <<Message("favorite_added", candidate, "candidate")>>,
                                     "none", {}, <<>>, {})
                      /\ UNCHANGED <<users, current_candidates, current_index, blacklist>>

\* queries.get_favorites_for_user when the query succeeds
get_favorites_for_user(rows, user_id) ==
    {rows[i][2] : i \in {j \in 1..Len(rows) : rows[j][1] = user_id}}

\* handle_show_favorites: no try block, and get_favorites_for_user catches
\* UnicodeDecodeError only, so an error of the session leaves the handler
handle_show_favorites(user_id) ==
    \E dbOk \in BOOLEAN :
        /\ last' = IF ~dbOk
                   THEN Outcome("favorites", user_id, <<>>, "DatabaseError", {"database"}, <<>>, {})
                   ELSE IF get_favorites_for_user(favorites, user_id) = {}
                   THEN Outcome("favorites", user_id,
                            <<Message("no_favorites", NoCandidate, "main")>>,
                            "none", {}, <<>>, {})
                   ELSE Outcome("favorites", user_id,
                            <<Message("favorites_list", NoCandidate, "favorites")>>,
                            "none", {}, <<>>, {})
        /\ UNCHANGED <<users, current_candidates, current_index, blacklist, favorites>>

\* candidate_at_cursor that takes the head of the list
candidate_at_head(candidates_of, index_of, user_id) == candidates_of[user_id][1]

\* lines 459-460: index = self.current_index[user_id];
\* candidate = self.current_candidates[user_id][index]
candidate_at_cursor(candidates_of, index_of, user_id) ==
    candidates_of[user_id][index_of[user_id] + 1]

\* handle_remove_from_favorites: no try block and no else branch
handle_remove_from_favorites(user_id) ==
    \E dbOk \in BOOLEAN :
        IF user_id \in DOMAIN current_candidates /\ user_id \in DOMAIN current_index
        THEN IF current_index[user_id] >= Len(current_candidates[user_id])
             THEN /\ last' = Outcome("remove_favorite", user_id, <<>>, "IndexError",
                                 {}, <<>>, {})
                  /\ UNCHANGED <<users, current_candidates, current_index, blacklist, favorites>>
             ELSE IF ~dbOk
             THEN /\ last' = Outcome("remove_favorite", user_id, <<>>, "DatabaseError",
                                 {"database"}, <<>>, {})
                  /\ UNCHANGED <<users, current_candidates, current_index, blacklist, favorites>>
             ELSE LET candidate == candidate_at_cursor(current_candidates, current_index, user_id)
                      result == remove_favorite(favorites, user_id, candidate)
                  IN  /\ favorites' = result.rows
                      /\ last' = Outcome("remove_favorite", user_id,
                                     <<Message(IF result.removed THEN "removed"
                                               ELSE "remove_failed", NoCandidate, "main")>>,
                                     "none", {}, <<>>, {})
                      /\ UNCHANGED <<users, current_candidates, current_index, blacklist>>
        ELSE /\ last' = Outcome("remove_favorite", user_id, <<>>, "none", {}, <<>>, {})
             /\ UNCHANGED <<users, current_candidates, current_index, blacklist, favorites>>

\* handle_blacklist that moves the cursor past the blacklisted candidate
handle_blacklist_advances(user_id) ==
    /\ user_id \in DOMAIN current_candidates
    /\ user_id \in DOMAIN current_index
    /\ current_index[user_id] < Len(current_candidates[user_id])
    /\ user_id \in users
    /\ LET candidate == current_candidates[user_id][current_index[user_id] + 1]
       IN  /\ blacklist' = blacklist \cup {<<user_id, candidate>>}
           /\ current_index' = [current_index EXCEPT ![user_id] = @ + 1]
           /\ last' = [cmd |-> "blacklist", user |-> user_id,
                       sent |-> <<Message("blacklisted", candidate, "none")>>,
                       raised |-> "none", failed |-> {}, search |-> <<>>,
                       read |-> {}, request |-> NoRequest]
           /\ UNCHANGED <<users, current_candidates, favorites>>

\* handle_blacklist: no try block; add_to_blacklist catches ValueError and
\* TypeError only, so an error of the session (dbOk is FALSE) and the
\* IntegrityError of an insert that violates the foreign key to users leave
\* the handler
handle_blacklist(user_id) ==
    \E dbOk \in BOOLEAN :
        IF user_id \notin DOMAIN current_candidates
        THEN /\ last' = Outcome("blacklist", user_id, <<>>, "none", {}, <<>>, {})
             /\ UNCHANGED <<users, current_candidates, current_index, blacklist, favorites>>
        ELSE IF user_id \notin DOMAIN current_index
        THEN /\ last' = Outcome("blacklist", user_id, <<>>, "KeyError", {}, <<>>, {})
             /\ UNCHANGED <<users, current_candidates, current_index, blacklist, favorites>>
        ELSE IF current_index[user_id] >= Len(current_candidates[user_id])
        THEN /\ last' = Outcome("blacklist", user_id, <<>>, "IndexError", {}, <<>>, {})
             /\ UNCHANGED <<users, current_candidates, current_index, blacklist, favorites>>
        ELSE IF ~dbOk
        THEN /\ last' = Outcome("blacklist", user_id, <<>>, "DatabaseError", {"database"}, <<>>, {})
             /\ UNCHANGED <<users, current_candidates, current_index, blacklist, favorites>>
        ELSE IF ~foreign_key_holds(users, user_id)
        THEN /\ last' = Outcome("blacklist", user_id, <<>>, "IntegrityError",
                                {"foreign_key"}, <<>>, {})
             /\ UNCHANGED <<users, current_candidates, current_index, blacklist, favorites>>
        ELSE LET candidate == current_candidates[user_id][current_index[user_id] + 1]
             IN  /\ blacklist' = add_to_blacklist(blacklist, user_id, candidate)
                 /\ last' = Outcome("blacklist", user_id,
                                <<Message("blacklisted", candidate, "none")>>,
                                "none", {}, <<>>, {})
                 /\ UNCHANGED <<users, current_candidates, current_index, favorites>>

\* the primary keys (photo_id) that rows of budding_photo have
PhotoIds == {7, 8}

\* a row of budding_photo: its primary key and the candidate it belongs to
BuddingPhoto(photo_id, budding_id) == [photo_id |-> photo_id, budding_id |-> budding_id]

\* VKAPIHandler.like_photo(owner_id, photo_id): the request sent to the API
like_photo(owner_id, photo_id) == LikeRequest(owner_id, photo_id)

\* handle_like_photo: no try block.  hasPhotos: get_top_photos_for_budding
\* returns rows, photo_id is the key of the first; likeOk: what
\* VKAPIHandler.like_photo returns.  Line 614 calls
\* like_photo(photo.photo_id, photo.budding_id).
handle_like_photo(user_id) ==
    \E dbOk \in BOOLEAN, hasPhotos \in BOOLEAN, likeOk \in BOOLEAN, photo_id \in PhotoIds :
        /\ last' =
            IF user_id \notin DOMAIN current_candidates \/ user_id \notin DOMAIN current_index
            THEN Outcome("like", user_id, <<Message("find_first", NoCandidate, "none")>>,
                         "none", {}, <<>>, {})
            ELSE IF current_index[user_id] >= Len(current_candidates[user_id])
            THEN Outcome("like", user_id, <<>>, "IndexError", {}, <<>>, {})
            ELSE IF ~dbOk
            THEN Outcome("like", user_id, <<>>, "DatabaseError", {"database"}, <<>>, {})
            ELSE IF ~hasPhotos
            THEN Outcome("like", user_id, <<Message("no_photos", NoCandidate, "none")>>,
                         "none", {}, <<>>, {})
            ELSE
            LET candidate == current_candidates[user_id][current_index[user_id] + 1]
                photo == BuddingPhoto(photo_id, candidate)
                request == like_photo(photo.photo_id, photo.budding_id)
            IN  IF likeOk
                THEN [Outcome("like", user_id,
                              <<Message("liked", NoCandidate, "candidate")>>,
                              "none", {}, <<>>, {}) EXCEPT !.request = request]
                ELSE [Outcome("like", user_id,
                              <<Message("like_failed", NoCandidate, "none")>>,
                              "none", {"like"}, <<>>, {}) EXCEPT !.request = request]
        /\ UNCHANGED <<users, current_candidates, current_index, blacklist, favorites>>

\* unknown_command without the keyboard
unknown_command_without_keyboard(user_id) ==
    /\ last' = Outcome("unknown", user_id,
                       <<Message("not_understood", NoCandidate, "none")>>,
                       "none", {}, <<>>, {})
    /\ UNCHANGED <<users, current_candidates, current_index, blacklist, favorites>>

\* the else branch of handle_message
unknown_command(user_id) ==
    /\ last' = Outcome("unknown", user_id,
                       <<Message("not_understood", NoCandidate, "main")>>,
                       "none", {}, <<>>, {})
    /\ UNCHANGED <<users, current_candidates, current_index, blacklist, favorites>>

\* handle_message: text = message['text'].lower(), then the branch of text
handle_message(user_id, message_text) ==
    LET branch == branch_of(lower(message_text))
    IN  \/ branch = "start" /\ received' = message_text /\ handle_start(user_id)
        \/ branch = "help" /\ received' = message_text /\ handle_help(user_id)
        \/ branch = "find" /\ received' = message_text /\ handle_find_pair(user_id)
        \/ branch = "favorites" /\ received' = message_text /\ handle_show_favorites(user_id)
        \/ branch = "add_favorite" /\ received' = message_text
               /\ handle_add_to_favorites(user_id)
        \/ branch = "blacklist" /\ received' = message_text /\ handle_blacklist(user_id)
        \/ branch = "like" /\ received' = message_text /\ handle_like_photo(user_id)
        \/ branch = "next" /\ received' = message_text /\ handle_next_candidate(user_id)
        \/ branch = "remove_favorite" /\ received' = message_text
               /\ handle_remove_from_favorites(user_id)
        \/ branch = "unknown" /\ received' = message_text /\ unknown_command(user_id)

\* run: one MESSAGE_NEW event after the other
\* one message of a user arrives and is handled; the events of run are
\* drawn as they arrive, no queue of them is kept
Next ==
    /\ \E user_id \in Senders, message_text \in Texts : handle_message(user_id, message_text)
    /\ UNCHANGED events

Spec == Init /\ [][Next]_vars

---------------------------------------------------------------------------
(* The favorites queries called on their own, for any user and candidate, *)
(* as src/tests/unit/db/test_db.py and                                     *)
(* src/tests/integration/test_db_flow.py call them.  `last` holds the     *)
(* call: its arguments, the exception that left it, the position of the   *)
(* row add_favorite returned and the value remove_favorite returned.      *)

QueryCall(cmd, user, budding, raised, entry, removed) ==
    [cmd |-> cmd, user |-> user, budding |-> budding, raised |-> raised,
     entry |-> entry, removed |-> removed]

QueryInit ==
    /\ current_candidates = EmptyDict
    /\ current_index = EmptyDict
    /\ users \in SUBSET QueryUsers
    /\ blacklist = {}
    /\ favorites = <<>>
    /\ received = NoText
    /\ last = NoOutcome
    /\ events = <<>>

\* add_favorite(db, user_id, budding_id); the commit of a new row fails
\* when the user has no row in users
call_add_favorite(user_id, budding_id) ==
    LET result == add_favorite(favorites, user_id, budding_id)
    IN  IF result.rows # favorites /\ ~foreign_key_holds(users, user_id)
        THEN /\ last' = QueryCall("add_favorite", user_id, budding_id,
                                  "IntegrityError", NoRow, FALSE)
             /\ UNCHANGED <<users, current_candidates, current_index, blacklist,
                            favorites, received>>
        ELSE /\ favorites' = result.rows
             /\ last' = QueryCall("add_favorite", user_id, budding_id,
                                  "none", result.entry, FALSE)
             /\ UNCHANGED <<users, current_candidates, current_index, blacklist, received>>

\* remove_favorite(db, user_id, budding_id)
call_remove_favorite(user_id, budding_id) ==
    LET result == remove_favorite(favorites, user_id, budding_id)
    IN  /\ favorites' = result.rows
        /\ last' = QueryCall("remove_favorite", user_id, budding_id,
                             "none", NoRow, result.removed)
        /\ UNCHANGED <<users, current_candidates, current_index, blacklist, received>>

QueryNext ==
    /\ \E user_id \in QueryUsers, budding_id \in CandidateIds :
        \/ call_add_favorite(user_id, budding_id)
        \/ call_remove_favorite(user_id, budding_id)
    /\ UNCHANGED events

QuerySpec == QueryInit /\ [][QueryNext]_vars

---------------------------------------------------------------------------
(* calculate_match_score called on its own, for any two rows and any      *)
(* number of common groups.  `last` holds the call: the rows the session  *)
(* reads (None: no such row), the number of common groups and, once the   *)
(* call is over, the exception that left it and the score returned.       *)

\* the largest number of common groups tried
MaxGroups == 12

\* ages in years: users.age and budding.age are written from
\* VKAPIHandler._parse_age, the year of today less the year of birth
Ages == {None, Some(20), Some(30), Some(32), Some(45)}

\* "Moscow", "moscow", "Kazan"
Cities ==
    {None, Some(Text("moscow", TRUE, FALSE)), Some(Text("moscow", FALSE, FALSE)),
     Some(Text("kazan", TRUE, FALSE))}

Rows == {None} \cup {Some(Profile(age, city)) : age \in Ages, city \in Cities}

ScoreCall(cmd, user_row, candidate_row, common_groups, raised, score) ==
    [cmd |-> cmd, user_row |-> user_row, candidate_row |-> candidate_row,
     common_groups |-> common_groups, raised |-> raised, score |-> score]

ScoreInit ==
    /\ current_candidates = EmptyDict
    /\ current_index = EmptyDict
    /\ users = {}
    /\ blacklist = {}
    /\ favorites = <<>>
    /\ received = NoText
    /\ events = <<>>
    /\ \E user_row \in Rows, candidate_row \in Rows, common_groups \in 0..MaxGroups :
           last = ScoreCall("score_called", user_row, candidate_row, common_groups,
                            "none", 0)

\* calculate_match_score(user_id, candidate_id, common_groups); dbOk: the
\* session of line 310 works
call_calculate_match_score ==
    \E dbOk \in BOOLEAN :
        /\ last.cmd = "score_called"
        /\ last' = IF dbOk
                   THEN ScoreCall("score", last.user_row, last.candidate_row,
                            last.common_groups, "none",
                            calculate_match_score(last.user_row, last.candidate_row,
                                                  last.common_groups))
                   ELSE ScoreCall("score", last.user_row, last.candidate_row,
                            last.common_groups, "DatabaseError", 0)
        /\ UNCHANGED <<users, current_candidates, current_index, blacklist, favorites, received>>

ScoreNext == call_calculate_match_score /\ UNCHANGED events

ScoreSpec == ScoreInit /\ [][ScoreNext]_vars

---------------------------------------------------------------------------
(* VKinderBot.run over the events of the long poll.  events is the        *)
(* sequence of the events that have arrived and are not yet taken, in the *)
(* order of their arrival; listen() yields its head.                      *)

\* the events taken before the loop is left
MaxEvents == 2

\* an event of the long poll: its type and, of a message, the sender and
\* the text
Event(type, from_id, text) == [type |-> type, from_id |-> from_id, text |-> text]

\* VkBotEventType: message_new and one of the other types
EventTypes == {"message_new", "message_reply"}

\* the events the long poll can yield
Events ==
    {Event("message_new", from_id, Text(w, FALSE, FALSE)) :
        from_id \in QueryUsers, w \in SampleWords}
    \cup {Event("message_reply", from_id, Text("poisk", FALSE, FALSE)) :
        from_id \in QueryUsers}

\* is_message_new that takes every event for a message
is_message_new_always(event) == event.type \in EventTypes

\* line 488: event.type == VkBotEventType.MESSAGE_NEW
is_message_new(event) == event.type = "message_new"

\* the users table holds the rows of both users
RunInit ==
    /\ current_candidates = EmptyDict
    /\ current_index = EmptyDict
    /\ users = QueryUsers
    /\ blacklist = {}
    /\ favorites = <<>>
    /\ received = NoText
    /\ last = NoOutcome
    /\ events \in UNION {[1..n -> Events] : n \in 1..MaxEvents}

\* one turn of the loop of run: listen() yields the head of events, and
\* handle_message has returned (or raised) before the next turn
run ==
    /\ events # <<>>
    /\ events' = Tail(events)
    /\ LET event == Head(events)
       IN  IF is_message_new(event)
           THEN handle_message(event.from_id, event.text)
           ELSE UNCHANGED <<current_candidates, current_index, users, blacklist,
                            favorites, received, last>>

RunNext == run

RunSpec == RunInit /\ [][RunNext]_vars

---------------------------------------------------------------------------
(* send_message called on its own, the transport working or not *)

\* the messages send_message is called with
SentMessages ==
    {Message(kind, cand, keyboard) :
        kind \in {"welcome", "card", "no_more_candidates"},
        cand \in {NoCandidate} \cup CandidateIds,
        keyboard \in {"none", "main", "candidate"}}

\* the bot has the session of one find, at any cursor, or none
SendInit ==
    /\ \E candidates \in SearchResults, index \in 0..MaxIndex :
           IF candidates = <<>>
           THEN current_candidates = EmptyDict /\ current_index = EmptyDict
           ELSE /\ current_candidates = DictSet(EmptyDict, 1, candidates)
                /\ current_index = DictSet(EmptyDict, 1, index)
    /\ users \in SUBSET Senders
    /\ blacklist = {}
    /\ favorites = <<>>
    /\ received = NoText
    /\ last = NoOutcome
    /\ events = <<>>

\* send_message that lets the exception of the transport through
send_message_reraises(user_id, message, transportOk) ==
    /\ last' = IF transportOk
               THEN Outcome("send", user_id, <<message>>, "none", {}, <<>>, {})
               ELSE Outcome("send", user_id, <<>>, "ApiError", {"transport"}, <<>>, {})
    /\ UNCHANGED <<users, current_candidates, current_index, blacklist, favorites,
                   received, events>>

\* send_message(user_id, message, keyboard, attachments).  transportOk:
\* self.api.messages.send returns; otherwise it raises, the except branch
\* logs the error and the function returns None
send_message(user_id, message, transportOk) ==
    /\ last' = IF transportOk
               THEN Outcome("send", user_id, <<message>>, "none", {}, <<>>, {})
               ELSE Outcome("send", user_id, <<>>, "none", {"transport"}, <<>>, {})
    /\ UNCHANGED <<users, current_candidates, current_index, blacklist, favorites,
                   received, events>>

SendNext ==
    \E user_id \in Senders, message \in SentMessages, transportOk \in BOOLEAN :
        send_message(user_id, message, transportOk)

SendSpec == SendInit /\ [][SendNext]_vars

---------------------------------------------------------------------------
(* Properties *)

HasSession(user_id) ==
    user_id \in DOMAIN current_candidates /\ user_id \in DOMAIN current_index

\* the handler that ran last was a search that stored a candidate list
FindStored ==
    /\ last.cmd = "find"
    /\ last.sent # <<>>
    /\ last.sent[1].kind \notin {"no_user_data", "no_candidates"}

\* the handler that ran last was a search that got as far as filtering
FindFiltered ==
    /\ last.cmd = "find"
    /\ last.sent # <<>>
    /\ last.sent[1].kind # "no_user_data"

\* number of elements of l[1..i] that are not in blocked
KeptUpTo(l, blocked, i) == Cardinality({j \in 1..i : l[j] \notin blocked})

\* kept is l without the elements that are in blocked, in the order of l
IsListWithout(kept, l, blocked) ==
    /\ Len(kept) = KeptUpTo(l, blocked, Len(l))
    /\ \A i \in 1..Len(l) :
           l[i] \notin blocked => kept[KeptUpTo(l, blocked, i)] = l[i]

\* C1: the cursor of every session is between 0 and the length of the
\* session's candidate list
C1_CursorWithinList ==
    \A u \in Senders :
        HasSession(u) =>
            /\ 0 <= current_index[u]
            /\ current_index[u] <= Len(current_candidates[u])

\* C2: after a search the user's session is the filtered result of that
\* search with the cursor at 0; nothing of an earlier session remains
C2_FindReplacesSession ==
    (FindFiltered /\ HasSession(last.user)) =>
        /\ current_candidates[last.user] = filter_candidates(last.search, last.read)
        /\ current_index[last.user] = 0

\* C3: a session operation of a user without session sends one message
\* asking to start a search, and raises nothing
C3_NoSessionAsksForSearch ==
    [][(/\ last'.cmd \in {"next", "add_favorite", "blacklist", "like", "remove_favorite"}
        /\ ~HasSession(last'.user))
       => (/\ last'.raised = "none"
           /\ Len(last'.sent) = 1
           /\ last'.sent[1].kind \in {"start_over", "find_first"})]_vars

\* C4: every handler sends exactly one message and lets no exception out
C4_ExactlyOneMessage ==
    last.cmd # "none" => (Len(last.sent) = 1 /\ last.raised = "none")

\* C5: with the cursor at the end of the list, the operations that read the
\* candidate at the cursor answer the user and raise no IndexError
C5_ExhaustedAnswers ==
    [][(/\ last'.cmd \in {"add_favorite", "blacklist", "like", "remove_favorite"}
        /\ HasSession(last'.user)
        /\ current_index[last'.user] = Len(current_candidates[last'.user]))
       => (Len(last'.sent) >= 1 /\ last'.raised # "IndexError")]_vars

\* C6: a handler in which a collaborator call failed leaves the session as
\* it was; stated for next: the cursor is not advanced
C6_FailureKeepsSession ==
    [][(last'.cmd = "next" /\ last'.failed # {})
       => (current_index' = current_index /\ current_candidates' = current_candidates)]_vars

\* the cursor at which the handler that runs in this step starts the display
DisplayStart ==
    IF last'.cmd = "find" THEN 0 ELSE current_index[last'.user] + 1

\* C7: a display that starts where every remaining candidate is blacklisted
\* moves the cursor to the end of the list and reports that no candidate is
\* left, with one message (no collaborator call failing during the display)
C7_SkipReachesEnd ==
    [][(/\ \/ last'.cmd = "find" /\ FindStored'
           \/ last'.cmd = "next" /\ HasSession(last'.user)
        /\ "display" \notin last'.failed
        /\ DisplayStart <= Len(current_candidates'[last'.user])
        /\ \A i \in (DisplayStart + 1)..Len(current_candidates'[last'.user]) :
               <<last'.user, current_candidates'[last'.user][i]>> \in blacklist)
       => (/\ current_index'[last'.user] = Len(current_candidates'[last'.user])
           /\ Len(last'.sent) = 1
           /\ last'.sent[1].kind = "no_more_candidates")]_vars

C9_BlacklistedNeverShown ==
    [][/\ blacklist \subseteq blacklist'
       /\ \A i \in 1..Len(last'.sent) :
              last'.sent[i].kind = "card" =>
                  <<last'.user, last'.sent[i].cand>> \notin blacklist]_vars

\* a search whose display skipped a blacklisted candidate and showed the next
C9_Witness ==
    /\ FindStored
    /\ last.sent[1].kind = "card"
    /\ current_index[last.user] >= 1
    /\ <<last.user, current_candidates[last.user][1]>> \in blacklist

\* C10: a search that leaves no candidate after filtering sends the one
\* 'no candidates' message and leaves the user without a non-empty list
C10_EmptySearchLeavesNoList ==
    (FindFiltered /\ filter_candidates(last.search, last.read) = <<>>) =>
        /\ last.sent = <<Message("no_candidates", NoCandidate, "none")>>
        /\ ~(HasSession(last.user) /\ current_candidates[last.user] # <<>>)

\* C11: a next on a session whose cursor is at or past the end of the list
\* sends the one 'no more candidates' message and raises nothing
C11_NextPastEndReportsExhausted ==
    [][(/\ last'.cmd = "next"
        /\ HasSession(last'.user)
        /\ current_index[last'.user] >= Len(current_candidates[last'.user]))
       => (/\ last'.sent = <<Message("no_more_candidates", NoCandidate, "main")>>
           /\ last'.raised = "none")]_vars

\* the second next after the cursor reached the end of the list
C11_Witness ==
    /\ last.cmd = "next"
    /\ HasSession(last.user)
    /\ current_index[last.user] >= Len(current_candidates[last.user]) + 2
    /\ last.sent = <<Message("no_more_candidates", NoCandidate, "main")>>

\* number of rows of the pair in the favorites table
PairCount(rows, user_id, budding_id) ==
    Cardinality({i \in 1..Len(rows) : rows[i] = <<user_id, budding_id>>})

\* C12: the favorites table never holds two rows of one pair; add_favorite
\* on a stored pair returns the stored row and leaves the table as it is;
\* after an add_favorite that returned the pair has exactly one row
C12_AddFavoriteIdempotent ==
    [][/\ \A u \in QueryUsers, b \in CandidateIds : PairCount(favorites', u, b) <= 1
       /\ (/\ last'.cmd = "add_favorite"
           /\ PairCount(favorites, last'.user, last'.budding) >= 1)
          => (/\ last'.raised = "none"
              /\ favorites' = favorites
              /\ last'.entry \in 1..Len(favorites)
              /\ favorites[last'.entry] = <<last'.user, last'.budding>>)
       /\ (last'.cmd = "add_favorite" /\ last'.raised = "none")
          => PairCount(favorites', last'.user, last'.budding) = 1]_vars

\* add_favorite returned a stored row that is not the newest of the table
C12_Witness ==
    /\ last.cmd = "add_favorite"
    /\ last.raised = "none"
    /\ last.entry # NoRow
    /\ last.entry < Len(favorites)

\* C13: remove_favorite of a pair that is not stored returns False and
\* leaves the table as it is; of a stored pair it returns True, the
\* candidate is no longer among the user's favorites and the rows of every
\* other pair are as before, in their order
C13_RemoveFavorite ==
    [][last'.cmd = "remove_favorite" =>
        /\ last'.raised = "none"
        /\ IF PairCount(favorites, last'.user, last'.budding) = 0
           THEN last'.removed = FALSE /\ favorites' = favorites
           ELSE /\ last'.removed = TRUE
                /\ last'.budding \notin get_favorites_for_user(favorites', last'.user)
                /\ favorites' = SelectSeq(favorites,
                       LAMBDA r : r # <<last'.user, last'.budding>>)]_vars

\* a stored pair was removed and rows of other pairs are left
C13_Witness ==
    /\ last.cmd = "remove_favorite"
    /\ last.removed = TRUE
    /\ Len(favorites) >= 2

\* the texts are the same once trimmed and put in lower case
SameNormalized(text, other) ==
    [text EXCEPT !.upper = FALSE, !.padded = FALSE]
        = [other EXCEPT !.upper = FALSE, !.padded = FALSE]

\* C14: two messages that differ in letter case and surrounding white space
\* only are dispatched to the same handler (stated for two messages that
\* follow each other)
C14_SameHandlerAfterTrimAndLower ==
    [][(last.cmd # "none" /\ SameNormalized(received', received))
       => last'.cmd = last.cmd]_vars

\* C15: a message whose trimmed lower-case text is in no command list is
\* answered with the one 'not understood' message and the main keyboard,
\* raises nothing and changes no session and no table
C15_UnknownCommand ==
    [][branch_of([received' EXCEPT !.upper = FALSE, !.padded = FALSE]) = "unknown"
       => (/\ last'.sent = <<Message("not_understood", NoCandidate, "main")>>
           /\ last'.raised = "none"
           /\ UNCHANGED <<current_candidates, current_index, users, blacklist,
                          favorites>>)]_vars

\* an unknown text received by a user who has a session, a blacklist row and
\* a favorite
C15_Witness ==
    /\ last.cmd = "unknown"
    /\ received.words = "kak dela"
    /\ HasSession(last.user)
    /\ blacklist # {}
    /\ favorites # <<>>

\* the last step was a call of calculate_match_score that returned
ScoreReturned == last.cmd = "score" /\ last.raised = "none"

\* the last call read both rows
BothRows == last.user_row # None /\ last.candidate_row # None

\* C16: the score is at least 0.0 and at most 1.0, and the call raises for
\* no rows and no number of common groups (only when the session fails)
C16_ScoreBetween0And1 ==
    last.cmd = "score" =>
        /\ last.raised \in {"none", "DatabaseError"}
        /\ last.raised = "none" => (0 <= last.score /\ last.score <= 100)

\* a score of 1.0: same age, same city, ten common groups or more
C16_Witness ==
    /\ ScoreReturned
    /\ BothRows
    /\ last.score = 100
    /\ last.common_groups > 10

\* the part of the last score that is left for the age
AgePart ==
    last.score - city_term(last.user_row[1].city, last.candidate_row[1].city)
               - groups_term(last.common_groups)

\* the part of the last score that is left for the city
CityPart ==
    last.score - age_term(last.user_row[1].age, last.candidate_row[1].age)
               - groups_term(last.common_groups)

\* the absolute age difference of the last call, both ages present
AgeDifference == Abs(last.user_row[1].age[1] - last.candidate_row[1].age[1])

\* C17: with both ages present the age term is 0.4 * (1 - min(d, 10) / 10)
\* for the absolute age difference d, that is 0.4 at d = 0, 0 for d >= 10
\* and never more for a larger d; it is 0 when an age is absent
C17_AgeTerm ==
    (ScoreReturned /\ BothRows) =>
        IF last.user_row[1].age # None /\ last.candidate_row[1].age # None
        THEN /\ 10 * AgePart = 40 * (10 - Min(AgeDifference, 10))
             /\ AgeDifference = 0 => AgePart = 40
             /\ AgeDifference >= 10 => AgePart = 0
             /\ \A user_age \in Ages \ {None}, candidate_age \in Ages \ {None} :
                    Abs(user_age[1] - candidate_age[1]) >= AgeDifference
                        => age_term(user_age, candidate_age) <= AgePart
        ELSE AgePart = 0

\* ages 2 years apart: the term is 0.32
C17_Witness ==
    /\ ScoreReturned
    /\ BothRows
    /\ last.user_row[1].age # None /\ last.candidate_row[1].age # None
    /\ AgeDifference = 2
    /\ AgePart = 32

\* C18: the city term is 0.3 when both cities are present and equal but for
\* the case of their letters, and 0 in every other case
C18_CityTerm ==
    (ScoreReturned /\ BothRows) =>
        IF /\ last.user_row[1].city # None
           /\ last.candidate_row[1].city # None
           /\ SameNormalized(last.user_row[1].city[1], last.candidate_row[1].city[1])
        THEN CityPart = 30
        ELSE CityPart = 0

\* "Moscow" and "moscow": the term is 0.3
C18_Witness ==
    /\ ScoreReturned
    /\ BothRows
    /\ last.user_row[1].city = Some(Text("moscow", TRUE, FALSE))
    /\ last.candidate_row[1].city = Some(Text("moscow", FALSE, FALSE))
    /\ CityPart = 30

\* C19: the card of candidate 11 (age 32, "Moscow", 5 common groups) sent to
\* user 1 (age 30, "Moscow") shows a match of 77%
C19_CardShows77Percent ==
    \A i \in 1..Len(last.sent) :
        (/\ last.sent[i].kind = "card"
         /\ last.failed = {}
         /\ last.user = 1
         /\ last.sent[i].cand = 11
         /\ last.sent[i].groups = 5)
        => last.sent[i].score = 77

\* C20: after a find that fetched the requester's profile the requester has
\* a row in users, and no step takes a row out of users
C20_FindStoresUserProfile ==
    [][/\ (last'.cmd = "find" /\ "user_info" \notin last'.failed)
          => last'.user \in users'
       /\ users \subseteq users']_vars

\* the sender of the step has a session whose cursor is on a candidate
OnCandidate ==
    /\ HasSession(last'.user)
    /\ current_index[last'.user] < Len(current_candidates[last'.user])

\* the candidate at the sender's cursor before the step
CurrentCandidate == current_candidates[last'.user][current_index[last'.user] + 1]

\* C23: an add-to-blacklist command with the cursor on a candidate puts the
\* candidate among the identifiers get_blacklist returns for the user (the
\* session of the database working), and no step removes a blacklist row
C23_BlacklistAppendOnly ==
    [][/\ (/\ last'.cmd = "blacklist"
           /\ OnCandidate
           /\ "database" \notin last'.failed)
          => CurrentCandidate \in get_blacklist(blacklist', last'.user)
       /\ blacklist \subseteq blacklist']_vars

\* C24: an add-to-favorites command with the cursor on a candidate that is
\* no favorite yet stores one row of the pair and sends the confirmation
\* naming the candidate, with the candidate keyboard; on a favorite it
\* stores nothing and sends the 'already in favorites' message (the session
\* of the database working)
C24_AddToFavorites ==
    [][(/\ last'.cmd = "add_favorite"
        /\ OnCandidate
        /\ "database" \notin last'.failed)
       => IF PairCount(favorites, last'.user, CurrentCandidate) = 0
          THEN /\ favorites' = Append(favorites, <<last'.user, CurrentCandidate>>)
               /\ last'.sent = <<Message("favorite_added", CurrentCandidate, "candidate")>>
          ELSE /\ favorites' = favorites
               /\ last'.sent = <<Message("already_favorite", NoCandidate, "none")>>]_vars

\* C25: the like request of a like-photo command has the candidate at the
\* cursor as owner and the key of the photo row as item
C25_LikeRequestOwnerThenPhoto ==
    [][(last'.cmd = "like" /\ last'.request # NoRequest)
       => (/\ last'.request.owner_id = CurrentCandidate
           /\ last'.request.item_id \in PhotoIds)]_vars

\* C26: a remove-favorite command with the cursor on a candidate removes
\* the row of (user, that candidate) and no other row and reports
\* 'removed'; when there is no such row it reports 'could not remove' and
\* the table is as before (the session of the database working)
C26_RemoveFromFavorites ==
    [][(/\ last'.cmd = "remove_favorite"
        /\ OnCandidate
        /\ "database" \notin last'.failed)
       => IF PairCount(favorites, last'.user, CurrentCandidate) > 0
          THEN /\ favorites' = SelectSeq(favorites,
                       LAMBDA r : r # <<last'.user, CurrentCandidate>>)
               /\ last'.sent = <<Message("removed", NoCandidate, "main")>>
          ELSE /\ favorites' = favorites
               /\ last'.sent = <<Message("remove_failed", NoCandidate, "main")>>]_vars

\* the favorite at the cursor was removed and another favorite is left
C26_Witness ==
    /\ last.cmd = "remove_favorite"
    /\ last.sent = <<Message("removed", NoCandidate, "main")>>
    /\ HasSession(last.user)
    /\ Len(favorites) >= 1

\* C27: only find and next change a session; in particular a blacklist
\* command leaves the cursor on the candidate it blacklisted
C27_OnlyFindAndNextChangeSessions ==
    [][last'.cmd \notin {"find", "next"}
       => UNCHANGED <<current_candidates, current_index>>]_vars

\* the candidate at the cursor was blacklisted and is still at the cursor
C27_Witness ==
    /\ last.cmd = "blacklist"
    /\ Len(last.sent) = 1
    /\ last.sent[1].kind = "blacklisted"
    /\ current_candidates[last.user][current_index[last.user] + 1] = last.sent[1].cand

\* C29: the two session dictionaries have the same keys, and no step takes
\* a key out of them
C29_SameKeys ==
    [][/\ DOMAIN current_candidates' = DOMAIN current_index'
       /\ DOMAIN current_candidates \subseteq DOMAIN current_candidates'
       /\ DOMAIN current_index \subseteq DOMAIN current_index']_vars

\* a second find wrote over the session of the first
C29_Witness ==
    /\ FindStored
    /\ HasSession(last.user)
    /\ current_index[last.user] = 0
    /\ current_candidates[last.user] = <<12, 11>>
    /\ blacklist # {}

\* C30: every stored list is non-empty and holds no candidate that was in
\* the user's blacklist when the find stored it; after such a find the
\* cursor is 0 and the card shown is of the first candidate found that is
\* not blacklisted
C30_StoredListsWithoutBlacklisted ==
    [][(last'.cmd = "find" /\ FindStored')
       => (/\ current_candidates'[last'.user] # <<>>
           /\ \A i \in 1..Len(current_candidates'[last'.user]) :
                  <<last'.user, current_candidates'[last'.user][i]>> \notin blacklist
           /\ last'.sent[1].kind = "card"
                  => (/\ current_index'[last'.user] = 0
                      /\ last'.sent[1].cand
                           = filter_candidates(last'.search,
                                 get_blacklist(blacklist, last'.user))[1]))]_vars

\* the event the loop of run takes in the step
TakenEvent == Head(events)

\* the rows of a table of pairs that belong to a user
RowsOf(rows, user_id) == {r \in rows : r[1] = user_id}

\* the session and the rows of a user are the same before and after the step
Untouched(user_id) ==
    /\ (user_id \in DOMAIN current_candidates) = (user_id \in DOMAIN current_candidates')
    /\ (user_id \in DOMAIN current_index) = (user_id \in DOMAIN current_index')
    /\ user_id \in DOMAIN current_candidates
           => current_candidates'[user_id] = current_candidates[user_id]
    /\ user_id \in DOMAIN current_index
           => current_index'[user_id] = current_index[user_id]
    /\ RowsOf(blacklist', user_id) = RowsOf(blacklist, user_id)
    /\ SelectSeq(favorites', LAMBDA r : r[1] = user_id)
           = SelectSeq(favorites, LAMBDA r : r[1] = user_id)

\* C21: every turn of run takes the event that arrived first and leaves
\* the later ones in their order; an event of type MESSAGE_NEW is handled
\* in that turn as the message of its sender with its text, an event of
\* another type reaches no handler and changes nothing
C21_OneEventAtATimeInOrder ==
    [][/\ events # <<>>
       /\ events' = Tail(events)
       /\ TakenEvent.type = "message_new"
              => (/\ last'.cmd # "none"
                  /\ last'.user = TakenEvent.from_id
                  /\ received' = TakenEvent.text)
       /\ TakenEvent.type # "message_new"
              => UNCHANGED <<current_candidates, current_index, users, blacklist,
                             favorites, received, last>>]_vars

\* the find of user 1 was handled and stored a list while the message of
\* user 2 that arrived after it waits
C21_Witness ==
    /\ Len(events) = 1
    /\ Head(events).from_id = 2
    /\ last.cmd = "find"
    /\ last.user = 1
    /\ 1 \in DOMAIN current_candidates

\* C22: send_message returns without an exception whether the transport
\* call returns or raises, and leaves the sessions as they were
C22_SendNeverRaises ==
    [][last'.cmd = "send"
       => (/\ last'.raised = "none"
           /\ UNCHANGED <<current_candidates, current_index>>)]_vars

\* the transport failed while the user had a session
C22_Witness ==
    /\ last.cmd = "send"
    /\ "transport" \in last.failed
    /\ HasSession(last.user)

=============================================================================
